---- MODULE Spec2Model ----
(***************************************************************************)
(* Model of src/main.py: the Docker Hub repository tag / manifest / cosign *)
(* signature reporter.  One run is: acquire a pull token, list the tags of *)
(* the repository, then for every tag that is not skipped fetch its        *)
(* manifest and correlate its content digest with the tag list.            *)
(*                                                                         *)
(* Strings whose characters the program inspects (tags, digests) are       *)
(* sequences of one-character strings, so that startswith / endswith /     *)
(* strip are computed as Python computes them.  A dict is a function whose *)
(* domain is its key set; the empty dict {} is << >>.                      *)
(*                                                                         *)
(* Input assumption: a 200 response that decodes carries a JSON object,    *)
(* and the "tags" field, when present, is an array of strings.             *)
(***************************************************************************)
EXTENDS Integers, Sequences, FiniteSets, TLC

VARIABLES
    pc,              \* position of the run in __main__ / the manifest loop
    repo_token,      \* RepoTagInfo.repo_token
    repo_tags,       \* RepoTagInfo.repo_tags
    print_limit,     \* RepoTagInfo._print_limit (args.limit)
    tag_idx,         \* index in repo_tags of the tag the for loop is at
    r_tag_manifest,  \* local r_tag_manifest of get_and_print_manifests
    requests,        \* every requests.get issued so far, in order
    responses,       \* responses[k] is the outcome of requests[k]
    log,             \* every logging record emitted so far, in order
    exit_status,     \* process exit status, NotExited while running
    digest_x,        \* input of the digest derivation study (SpecDigest)
    digest_y,        \* second input of the digest derivation study
    derived          \* outputs of the digest derivation study

vars == <<pc, repo_token, repo_tags, print_limit, tag_idx, r_tag_manifest,
          requests, responses, log, exit_status, digest_x, digest_y, derived>>

(***************************************************************************)
(* Bounds and program constants                                            *)
(***************************************************************************)
MaxTags == 3
MaxHexLen == 2

OK == 200
NOT_FOUND == 404
UNAUTHORIZED == 401
DefaultLimit == 10

NotExited == -1
NoToken == "<unset>"
EmptyDict == << >>

(***************************************************************************)
(* Python string helpers                                                   *)
(***************************************************************************)
Min(a, b) == IF a < b THEN a ELSE b
Max(a, b) == IF a > b THEN a ELSE b

Chars(s) == {s[k] : k \in 1..Len(s)}

startswith(s, p) == Len(s) >= Len(p) /\ SubSeq(s, 1, Len(p)) = p

endswith(s, p) == Len(s) >= Len(p) /\ SubSeq(s, Len(s) - Len(p) + 1, Len(s)) = p

\* str.strip(chars): drops every leading and every trailing character that
\* belongs to the set of characters of the argument.
strip(s, chars) ==
    LET keep == {k \in 1..Len(s) : s[k] \notin Chars(chars)}
    IN  IF keep = {} THEN << >>
        ELSE LET lo == CHOOSE k \in keep : \A j \in keep : k <= j
                 hi == CHOOSE k \in keep : \A j \in keep : k >= j
             IN  SubSeq(s, lo, hi)

\* seq[:n] of Python, n any integer
SliceTo(s, n) ==
    IF n >= 0 THEN SubSeq(s, 1, Min(n, Len(s)))
    ELSE SubSeq(s, 1, Max(Len(s) + n, 0))

SHA256_COLON == <<"s", "h", "a", "2", "5", "6", ":">>
SHA256_DASH == <<"s", "h", "a", "2", "5", "6", "-">>
DOT_SIG == <<".", "s", "i", "g">>

(***************************************************************************)
(* The registry and the auth service: the responses a request can get      *)
(***************************************************************************)
SigTag(hex) == SHA256_DASH \o hex \o DOT_SIG
Digest(hex) == SHA256_COLON \o hex

HexChars == {"a", "b", "1"}
\* the hex strings of length 1..n over HexChars
HexStrs(n) == UNION {[1..k -> HexChars] : k \in 1..n}

\* hex parts of the digests and signature tags of the modelled repository
RepoHex == {<<"a", "b">>, <<"b">>}
PlainTags == {<<"v", "1">>, <<"v", "2">>, <<"v", "3">>}
TagUniverse == PlainTags \cup {SigTag(h) : h \in RepoHex} \cup {SigTag(<<"v", "1">>)}

IsInjective(s) == \A j, k \in 1..Len(s) : s[j] = s[k] => j = k
TagLists == {s \in UNION {[1..k -> TagUniverse] : k \in 0..MaxTags} : IsInjective(s)}

PrintLimits == {-1, 0, 1, DefaultLimit}
Tokens == {"tok"}

AuthUrl == <<"auth">>
TagsUrl == <<"tags">>
ManifestUrl(tag) == <<"manifests", tag>>

\* A response: exc is TRUE when requests.get raised a RequestException;
\* decodes is whether json.loads accepts response.text, json its value.
Response(exc, code, decodes, json, headers) ==
    [exc |-> exc, status_code |-> code, decodes |-> decodes, json |-> json,
     headers |-> headers]

FailedResponses ==
    {Response(TRUE, 0, FALSE, EmptyDict, EmptyDict),
     Response(FALSE, OK, FALSE, EmptyDict, [server |-> "registry"]),
     Response(FALSE, NOT_FOUND, TRUE, [errors |-> "NOT_FOUND"], [server |-> "registry"]),
     Response(FALSE, UNAUTHORIZED, TRUE, [errors |-> "UNAUTHORIZED"], [server |-> "registry"]),
     Response(FALSE, 500, FALSE, EmptyDict, [server |-> "registry"])}

AuthResponses ==
    FailedResponses
    \cup {Response(FALSE, OK, TRUE, [token |-> t], [server |-> "auth"]) : t \in Tokens}
    \cup {Response(FALSE, OK, TRUE, j, [server |-> "auth"]) :
              j \in {EmptyDict, [details |-> "denied"]}}

TagsResponses ==
    FailedResponses
    \cup {Response(FALSE, OK, TRUE, [name |-> "repo", tags |-> l], [server |-> "registry"]) :
              l \in TagLists}
    \cup {Response(FALSE, OK, TRUE, j, [server |-> "registry"]) :
              j \in {EmptyDict, [name |-> "repo"]}}

ManifestHeaders ==
    {[server |-> "registry"]}
    \cup {("docker-content-digest" :> Digest(h)) @@ [server |-> "registry"] : h \in RepoHex}

ManifestResponses ==
    FailedResponses
    \cup {Response(FALSE, OK, TRUE, [schemaVersion |-> 2], h) : h \in ManifestHeaders}

(***************************************************************************)
(* RepoTagInfo.get_json_from_url                                           *)
(***************************************************************************)
ErrorRecord(kind, url) == [kind |-> kind, url |-> url]

\* mutant of get_json_from_url: the 401 branch logs the error and then
\* returns the decoded body like the 200 branch
get_json_from_url_401body(url, resp, with_res_headers) ==
    IF resp.exc
    THEN [json_data |-> EmptyDict, logged |-> <<ErrorRecord("request_exception", url)>>]
    ELSE IF resp.status_code = OK
    THEN IF resp.decodes
         THEN [json_data |-> IF with_res_headers
                             THEN ("headers" :> resp.headers) @@ resp.json
                             ELSE resp.json,
               logged |-> << >>]
         ELSE [json_data |-> EmptyDict, logged |-> <<ErrorRecord("decode_error", url)>>]
    ELSE IF resp.status_code = NOT_FOUND
    THEN [json_data |-> EmptyDict, logged |-> <<ErrorRecord("not_found", url)>>]
    ELSE IF resp.status_code = UNAUTHORIZED
    THEN [json_data |-> IF with_res_headers
                        THEN ("headers" :> resp.headers) @@ resp.json
                        ELSE resp.json,
          logged |-> <<ErrorRecord("unauthorized", url)>>]
    ELSE [json_data |-> EmptyDict, logged |-> <<ErrorRecord("unknown_status", url)>>]

\* mutant of get_json_from_url: the 401 branch returns without logging
get_json_from_url_quiet401(url, resp, with_res_headers) ==
    IF resp.exc
    THEN [json_data |-> EmptyDict, logged |-> <<ErrorRecord("request_exception", url)>>]
    ELSE IF resp.status_code = OK
    THEN IF resp.decodes
         THEN [json_data |-> IF with_res_headers
                             THEN ("headers" :> resp.headers) @@ resp.json
                             ELSE resp.json,
               logged |-> << >>]
         ELSE [json_data |-> EmptyDict, logged |-> <<ErrorRecord("decode_error", url)>>]
    ELSE IF resp.status_code = NOT_FOUND
    THEN [json_data |-> EmptyDict, logged |-> <<ErrorRecord("not_found", url)>>]
    ELSE IF resp.status_code = UNAUTHORIZED
    THEN [json_data |-> EmptyDict, logged |-> << >>]
    ELSE [json_data |-> EmptyDict, logged |-> <<ErrorRecord("unknown_status", url)>>]

\* The value returned and the records logged for response resp to a GET of url.
get_json_from_url(url, resp, with_res_headers) ==
    IF resp.exc
    THEN [json_data |-> EmptyDict, logged |-> <<ErrorRecord("request_exception", url)>>]
    ELSE IF resp.status_code = OK
    THEN IF resp.decodes
         THEN [json_data |-> IF with_res_headers
                             THEN ("headers" :> resp.headers) @@ resp.json
                             ELSE resp.json,
               logged |-> << >>]
         ELSE [json_data |-> EmptyDict, logged |-> <<ErrorRecord("decode_error", url)>>]
    ELSE IF resp.status_code = NOT_FOUND
    THEN [json_data |-> EmptyDict, logged |-> <<ErrorRecord("not_found", url)>>]
    ELSE IF resp.status_code = UNAUTHORIZED
    THEN [json_data |-> EmptyDict, logged |-> <<ErrorRecord("unauthorized", url)>>]
    ELSE [json_data |-> EmptyDict, logged |-> <<ErrorRecord("unknown_status", url)>>]

Request(url, headers) == [url |-> url, headers |-> headers]

\* truth value of a dict
Truthy(d) == DOMAIN d # {}

(***************************************************************************)
(* RepoTagInfo.is_signed_artifact                                          *)
(***************************************************************************)
\* mutant of IsSkippedTag: the prefix is written with the digest's colon
IsSkippedTag_colon(tag) == startswith(tag, SHA256_COLON) /\ endswith(tag, DOT_SIG)

\* line 79: the test that makes the loop skip a tag
IsSkippedTag(tag) == startswith(tag, SHA256_DASH) /\ endswith(tag, DOT_SIG)

\* lines 90-91: the signature tag name derived from a content digest
SignatureTagName(digest) == SHA256_DASH \o strip(digest, SHA256_COLON) \o DOT_SIG

DelKey(d, key) == [k \in DOMAIN d \ {key} |-> d[k]]

\* mutant of is_signed_artifact: a missing digest header is logged as an error
is_signed_artifact_else_error(tag, manifest, tags) ==
    IF "docker-content-digest" \in DOMAIN manifest["headers"]
    THEN LET image_digest == SignatureTagName(manifest["headers"]["docker-content-digest"])
         IN  [manifest |-> DelKey(manifest, "headers"),
              logged |-> IF image_digest \in Chars(tags)
                         THEN <<[kind |-> "signed", tag |-> tag]>>
                         ELSE << >>]
    ELSE [manifest |-> manifest,
          logged |-> <<ErrorRecord("unknown_status", ManifestUrl(tag))>>]

\* The manifest dict as the call leaves it and the records the call logs.
is_signed_artifact(tag, manifest, tags) ==
    IF "docker-content-digest" \in DOMAIN manifest["headers"]
    THEN LET image_digest == SignatureTagName(manifest["headers"]["docker-content-digest"])
         IN  [manifest |-> DelKey(manifest, "headers"),
              logged |-> IF image_digest \in Chars(tags)
                         THEN <<[kind |-> "signed", tag |-> tag]>>
                         ELSE << >>]
    ELSE [manifest |-> manifest, logged |-> << >>]

(***************************************************************************)
(* The run                                                                 *)
(***************************************************************************)
Init ==
    /\ pc = "get_token"
    /\ repo_token = NoToken
    /\ repo_tags = << >>
    /\ print_limit \in PrintLimits
    /\ tag_idx = 0
    /\ r_tag_manifest = EmptyDict
    /\ requests = << >>
    /\ responses = << >>
    /\ log = <<[kind |-> "start"]>>
    /\ exit_status = NotExited
    /\ digest_x = << >>
    /\ digest_y = << >>
    /\ derived = << >>

study == <<digest_x, digest_y, derived>>

\* requests.get(url, headers=headers) answered by resp
Get(url, headers, resp) ==
    /\ requests' = Append(requests, Request(url, headers))
    /\ responses' = Append(responses, resp)

\* mutant of Quit: exit(0)
Quit_status0(records) ==
    /\ log' = log \o records
    /\ pc' = "exited"
    /\ exit_status' = 0

\* exit(1)
Quit(records) ==
    /\ log' = log \o records
    /\ pc' = "exited"
    /\ exit_status' = 1

\* mutant of get_token: the error is logged but exit(1) is missing, so the
\* method returns None and the run goes on
get_token_no_exit ==
    /\ pc = "get_token"
    /\ \E resp \in AuthResponses :
         LET r == get_json_from_url(AuthUrl, resp, FALSE)
             r_auth_json == r.json_data
         IN  /\ Get(AuthUrl, EmptyDict, resp)
             /\ IF Truthy(r_auth_json) /\ "token" \in DOMAIN r_auth_json
                THEN /\ log' = log \o r.logged \o <<[kind |-> "token_acquired"]>>
                     /\ repo_token' = r_auth_json["token"]
                ELSE /\ log' = log \o r.logged \o <<[kind |-> "token_error"]>>
                     /\ repo_token' = NoToken
    /\ pc' = "get_and_print_tags"
    /\ repo_tags' = << >>
    /\ UNCHANGED <<print_limit, tag_idx, r_tag_manifest, exit_status, study>>

\* RepoTagInfo.__init__ with get_token
get_token ==
    /\ pc = "get_token"
    /\ \E resp \in AuthResponses :
         LET r == get_json_from_url(AuthUrl, resp, FALSE)
             r_auth_json == r.json_data
         IN  /\ Get(AuthUrl, EmptyDict, resp)
             /\ IF Truthy(r_auth_json) /\ "token" \in DOMAIN r_auth_json
                THEN /\ log' = log \o r.logged \o <<[kind |-> "token_acquired"]>>
                     /\ repo_token' = r_auth_json["token"]
                     /\ pc' = "get_and_print_tags"
                     /\ UNCHANGED exit_status
                ELSE /\ Quit(r.logged \o <<[kind |-> "token_error"]>>)
                     /\ UNCHANGED repo_token
    /\ repo_tags' = << >>
    /\ UNCHANGED <<print_limit, tag_idx, r_tag_manifest, study>>

\* mutant of get_and_print_tags: the error is logged but exit(1) is missing
get_and_print_tags_no_exit ==
    /\ pc = "get_and_print_tags"
    /\ \E resp \in TagsResponses :
         LET r == get_json_from_url(TagsUrl, resp, FALSE)
             r_tags_url_json == r.json_data
         IN  /\ Get(TagsUrl, [Authorization |-> repo_token], resp)
             /\ IF Truthy(r_tags_url_json) /\ "tags" \in DOMAIN r_tags_url_json
                THEN /\ repo_tags' = r_tags_url_json["tags"]
                     /\ log' = log \o r.logged \o
                               <<[kind |-> "tags_total", count |-> Len(repo_tags')],
                                 [kind |-> "tags_first", limit |-> print_limit,
                                  tags |-> SliceTo(repo_tags', print_limit)]>>
                ELSE /\ log' = log \o r.logged \o <<[kind |-> "tags_error"]>>
                     /\ UNCHANGED repo_tags
    /\ pc' = "manifests"
    /\ tag_idx' = 1
    /\ UNCHANGED <<repo_token, print_limit, r_tag_manifest, exit_status, study>>

get_and_print_tags ==
    /\ pc = "get_and_print_tags"
    /\ \E resp \in TagsResponses :
         LET r == get_json_from_url(TagsUrl, resp, FALSE)
             r_tags_url_json == r.json_data
         IN  /\ Get(TagsUrl, [Authorization |-> repo_token], resp)
             /\ IF Truthy(r_tags_url_json) /\ "tags" \in DOMAIN r_tags_url_json
                THEN /\ repo_tags' = r_tags_url_json["tags"]
                     /\ log' = log \o r.logged \o
                               <<[kind |-> "tags_total", count |-> Len(repo_tags')],
                                 [kind |-> "tags_first", limit |-> print_limit,
                                  tags |-> SliceTo(repo_tags', print_limit)]>>
                     /\ pc' = "manifests"
                     /\ tag_idx' = 1
                     /\ UNCHANGED exit_status
                ELSE /\ Quit(r.logged \o <<[kind |-> "tags_error"]>>)
                     /\ UNCHANGED <<repo_tags, tag_idx>>
    /\ UNCHANGED <<repo_token, print_limit, r_tag_manifest, study>>

ManifestRequestHeaders ==
    [Authorization |-> repo_token,
     Accept |-> "application/vnd.docker.distribution.manifest.v2+json"]

\* mutant of skip_tag: the loop does not advance past a skipped tag
skip_tag_stuck ==
    /\ pc = "manifests"
    /\ tag_idx <= Len(repo_tags)
    /\ IsSkippedTag(repo_tags[tag_idx])
    /\ UNCHANGED vars

\* mutant of skip_tag: the skipped signature tag is removed from the list
skip_tag_remove ==
    /\ pc = "manifests"
    /\ tag_idx <= Len(repo_tags)
    /\ IsSkippedTag(repo_tags[tag_idx])
    /\ repo_tags' = SubSeq(repo_tags, 1, tag_idx - 1)
                    \o SubSeq(repo_tags, tag_idx + 1, Len(repo_tags))
    /\ UNCHANGED <<pc, repo_token, tag_idx, print_limit, r_tag_manifest, requests,
                   responses, log, exit_status, study>>

\* lines 78-81: the loop reaches a tag it skips
skip_tag ==
    /\ pc = "manifests"
    /\ tag_idx <= Len(repo_tags)
    /\ IsSkippedTag(repo_tags[tag_idx])
    /\ tag_idx' = tag_idx + 1
    /\ UNCHANGED <<pc, repo_token, repo_tags, print_limit, r_tag_manifest, requests,
                   responses, log, exit_status, study>>

\* lines 82-83: the manifest GET of the tag the loop is at
fetch_manifest ==
    /\ pc = "manifests"
    /\ tag_idx <= Len(repo_tags)
    /\ ~IsSkippedTag(repo_tags[tag_idx])
    /\ \E resp \in ManifestResponses :
         LET tag == repo_tags[tag_idx]
             r == get_json_from_url(ManifestUrl(tag), resp, TRUE)
         IN  /\ Get(ManifestUrl(tag), ManifestRequestHeaders, resp)
             /\ r_tag_manifest' = r.json_data
             /\ log' = log \o r.logged
    /\ pc' = "manifest_fetched"
    /\ UNCHANGED <<repo_token, repo_tags, print_limit, tag_idx, exit_status, study>>

\* mutant of print_manifest: after an empty result the loop stays on the tag
\* and fetches it again
print_manifest_retry ==
    /\ pc = "manifest_fetched"
    /\ LET tag == repo_tags[tag_idx]
           r == IF Truthy(r_tag_manifest)
                THEN is_signed_artifact(tag, r_tag_manifest, repo_tags)
                ELSE [manifest |-> r_tag_manifest, logged |-> << >>]
       IN  /\ r_tag_manifest' = r.manifest
           /\ log' = log \o r.logged \o
                     <<[kind |-> "manifest", tag |-> tag, manifest |-> r.manifest]>>
    /\ pc' = "manifests"
    /\ tag_idx' = IF Truthy(r_tag_manifest) THEN tag_idx + 1 ELSE tag_idx
    /\ UNCHANGED <<repo_token, repo_tags, print_limit, requests, responses, exit_status,
                   study>>

\* mutant of print_manifest: the correlation is called with the first tag of
\* the list instead of the loop's tag
print_manifest_first_tag ==
    /\ pc = "manifest_fetched"
    /\ LET tag == repo_tags[tag_idx]
           r == IF Truthy(r_tag_manifest)
                THEN is_signed_artifact(repo_tags[1], r_tag_manifest, repo_tags)
                ELSE [manifest |-> r_tag_manifest, logged |-> << >>]
       IN  /\ r_tag_manifest' = r.manifest
           /\ log' = log \o r.logged \o
                     <<[kind |-> "manifest", tag |-> tag, manifest |-> r.manifest]>>
    /\ pc' = "manifests"
    /\ tag_idx' = tag_idx + 1
    /\ UNCHANGED <<repo_token, repo_tags, print_limit, requests, responses, exit_status,
                   study>>

\* lines 84-86: signature correlation and the 'Manifest for' record
print_manifest ==
    /\ pc = "manifest_fetched"
    /\ LET tag == repo_tags[tag_idx]
           r == IF Truthy(r_tag_manifest)
                THEN is_signed_artifact(tag, r_tag_manifest, repo_tags)
                ELSE [manifest |-> r_tag_manifest, logged |-> << >>]
       IN  /\ r_tag_manifest' = r.manifest
           /\ log' = log \o r.logged \o
                     <<[kind |-> "manifest", tag |-> tag, manifest |-> r.manifest]>>
    /\ pc' = "manifests"
    /\ tag_idx' = tag_idx + 1
    /\ UNCHANGED <<repo_token, repo_tags, print_limit, requests, responses, exit_status,
                   study>>

\* the for loop is exhausted and the script ends
finish ==
    /\ pc = "manifests"
    /\ tag_idx > Len(repo_tags)
    /\ pc' = "exited"
    /\ exit_status' = 0
    /\ UNCHANGED <<repo_token, repo_tags, print_limit, tag_idx, r_tag_manifest,
                   requests, responses, log, study>>

Next ==
    \/ get_token
    \/ get_and_print_tags
    \/ skip_tag
    \/ fetch_manifest
    \/ print_manifest
    \/ finish

Spec == Init /\ [][Next]_vars

\* The run is sequential and every HTTP call completes or fails, so a step
\* that can be taken is eventually taken.
SpecFair == Init /\ [][Next]_vars /\ WF_vars(Next)

(***************************************************************************)
(* The digest derivation on its own: two digests of the form sha256:<hex>  *)
(* are drawn and lines 90-91 are applied to each.                          *)
(***************************************************************************)
InitDigest ==
    /\ pc = "get_token"
    /\ repo_token = NoToken
    /\ repo_tags = << >>
    /\ print_limit = DefaultLimit
    /\ tag_idx = 0
    /\ r_tag_manifest = EmptyDict
    /\ requests = << >>
    /\ responses = << >>
    /\ log = <<[kind |-> "start"]>>
    /\ exit_status = NotExited
    /\ digest_x \in {Digest(h) : h \in HexStrs(MaxHexLen)}
    /\ digest_y \in {Digest(h) : h \in HexStrs(MaxHexLen)}
    /\ derived = << >>

derive_signature_names ==
    /\ derived = << >>
    /\ derived' = <<SignatureTagName(digest_x), SignatureTagName(digest_y)>>
    /\ UNCHANGED <<pc, repo_token, repo_tags, print_limit, tag_idx, r_tag_manifest,
                   requests, responses, log, exit_status, digest_x, digest_y>>

NextDigest == derive_signature_names

SpecDigest == InitDigest /\ [][NextDigest]_vars

(***************************************************************************)
(* Vocabulary of the properties                                            *)
(***************************************************************************)
HexDigits == {"0", "1", "2", "3", "4", "5", "6", "7", "8", "9",
              "a", "b", "c", "d", "e", "f"}

Middle(tag) == SubSeq(tag, Len(SHA256_DASH) + 1, Len(tag) - Len(DOT_SIG))

\* sha256-*.sig
MatchesSigPattern(tag) ==
    /\ Len(tag) >= Len(SHA256_DASH) + Len(DOT_SIG)
    /\ SubSeq(tag, 1, Len(SHA256_DASH)) = SHA256_DASH
    /\ SubSeq(tag, Len(tag) - Len(DOT_SIG) + 1, Len(tag)) = DOT_SIG

\* sha256-<hex>.sig
IsSignatureTag(tag) ==
    /\ MatchesSigPattern(tag)
    /\ Middle(tag) # << >>
    /\ Chars(Middle(tag)) \subseteq HexDigits

\* the <X> of a digest sha256:<X>
HexOf(digest) == SubSeq(digest, Len(SHA256_COLON) + 1, Len(digest))

IsManifestRequest(k) == requests[k].url[1] = "manifests"
RequestedTag(k) == requests[k].url[2]
ManifestRequests == {k \in 1..Len(requests) : IsManifestRequest(k)}
RequestedTags == {RequestedTag(k) : k \in ManifestRequests}

\* the response is a 200 whose body decodes
Succeeded(resp) == ~resp.exc /\ resp.status_code = 200 /\ resp.decodes
HasDigest(resp) == "docker-content-digest" \in DOMAIN resp.headers
DigestOf(resp) == resp.headers["docker-content-digest"]

LogOfKind(kind) == {k \in 1..Len(log) : log[k].kind = kind}
\* the 'Manifest for' record of a tag has been emitted
ManifestLogged(tag) == \E k \in LogOfKind("manifest") : log[k].tag = tag
\* the 'Signed!' record of a tag has been emitted
SignedLogged(tag) == \E k \in LogOfKind("signed") : log[k].tag = tag
ErrorKinds == {"request_exception", "decode_error", "not_found", "unauthorized",
               "unknown_status"}
ErrorLogged(url) == \E kind \in ErrorKinds : \E k \in LogOfKind(kind) : log[k].url = url

\* C1: a tag whose manifest was fetched successfully with digest sha256:<X>,
\* in a repository whose tag list contains sha256-<X>.sig, has its 'Signed!'
\* record emitted once the tag is processed.
C1_SignedWhenSignatureTagListed ==
    \A k \in ManifestRequests :
        (/\ Succeeded(responses[k])
         /\ HasDigest(responses[k])
         /\ SigTag(HexOf(DigestOf(responses[k]))) \in Chars(repo_tags)
         /\ ManifestLogged(RequestedTag(k)))
        => SignedLogged(RequestedTag(k))

\* C2: the digest sha256:<X> is mapped to the name sha256-<X>.sig exactly,
\* and two different digests are mapped to two different names.
C2_DigestNameExactAndInjective ==
    derived # << >> =>
        /\ derived[1] = SigTag(HexOf(digest_x))
        /\ derived[2] = SigTag(HexOf(digest_y))
        /\ (digest_x # digest_y => derived[1] # derived[2])

\* C3: no 'Manifest for' record shows a manifest result that still has its
\* headers field, whether or not the digest header was present and whether or
\* not the tag was found signed.
C3_HeadersRemovedBeforeLogged ==
    \A k \in LogOfKind("manifest") : "headers" \notin DOMAIN log[k].manifest

\* C4: no manifest GET is ever sent for a tag of the form sha256-<hex>.sig.
C4_NoRequestForSignatureTag ==
    \A tag \in RequestedTags : ~IsSignatureTag(tag)

\* C4 witness: the loop has gone past a signature tag of the list and has
\* sent a manifest GET for another tag.
C4_Witness ==
    /\ pc = "exited"
    /\ exit_status = 0
    /\ RequestedTags # {}
    /\ \E j \in 1..Len(repo_tags) : IsSignatureTag(repo_tags[j])

FetchedUpTo(n) == {repo_tags[j] : j \in {i \in 1..Min(n, Len(repo_tags)) :
                                            ~MatchesSigPattern(repo_tags[i])}}

AuthSucceeded ==
    /\ Len(responses) >= 1
    /\ Succeeded(responses[1])
    /\ "token" \in DOMAIN responses[1].json
AuthFailed == Len(responses) >= 1 /\ ~AuthSucceeded

TagsSucceeded ==
    /\ Len(responses) >= 2
    /\ Succeeded(responses[2])
    /\ "tags" \in DOMAIN responses[2].json
TagsFailed == Len(responses) >= 2 /\ ~TagsSucceeded

\* C6: once the auth request has failed or its response lacks a token, the
\* run has ended with status 1 and the auth request stays the only request.
C6_AuthFailureFatal ==
    AuthFailed =>
        /\ pc = "exited"
        /\ exit_status = 1
        /\ requests = <<Request(AuthUrl, EmptyDict)>>

\* C6 witness: the auth service answered 200 with a JSON object without token.
C6_Witness ==
    /\ AuthFailed
    /\ Succeeded(responses[1])
    /\ Truthy(responses[1].json)

\* C7: once the tag-list request has failed or its response lacks the tags
\* field, the run has ended with status 1 and no manifest request exists.
C7_TagListFailureFatal ==
    (Len(requests) >= 2 /\ requests[2].url = TagsUrl /\ TagsFailed) =>
        /\ pc = "exited"
        /\ exit_status = 1
        /\ ManifestRequests = {}
        /\ Len(requests) = 2

\* C7 witness: the tag-list request got a 404.
C7_Witness ==
    /\ Len(requests) >= 2
    /\ requests[2].url = TagsUrl
    /\ ~responses[2].exc
    /\ responses[2].status_code = 404

\* C8: a tag whose manifest was fetched successfully with digest sha256:<X>,
\* in a repository whose tag list does not contain sha256-<X>.sig, gets no
\* 'Signed!' record and no error record, and the run is not ended by it.
C8_NotSignedWhenSignatureTagMissing ==
    \A k \in ManifestRequests :
        (/\ Succeeded(responses[k])
         /\ HasDigest(responses[k])
         /\ SigTag(HexOf(DigestOf(responses[k]))) \notin Chars(repo_tags))
        => /\ ~SignedLogged(RequestedTag(k))
           /\ ~ErrorLogged(requests[k].url)
           /\ exit_status # 1

\* C9: a run that has ended has status 1 exactly when the token acquisition
\* or the tag listing failed; when both succeeded it has status 0 and the
\* loop has gone through the whole tag list, whatever the manifest outcomes.
\* A run that has not ended has no exit status.
C9_ExitStatus ==
    /\ pc # "exited" => exit_status = NotExited
    /\ pc = "exited" =>
         /\ exit_status \in {0, 1}
         /\ exit_status # 0 <=> (AuthFailed \/ TagsFailed)
         /\ (AuthSucceeded /\ TagsSucceeded) =>
              /\ exit_status = 0
              /\ tag_idx = Len(repo_tags) + 1
              /\ FetchedUpTo(Len(repo_tags)) = RequestedTags
              /\ \A tag \in RequestedTags : ManifestLogged(tag)

\* C9 witness: token and tags succeeded, a manifest request failed, and the
\* run has ended.
C9_Witness ==
    /\ pc = "exited"
    /\ AuthSucceeded
    /\ TagsSucceeded
    /\ \E k \in ManifestRequests : ~Succeeded(responses[k])

IsAuthRequest(k) == requests[k].url = AuthUrl
IsTagsRequest(k) == requests[k].url = TagsUrl

\* the order of the requests issued so far
RequestOrder ==
    /\ Len(responses) = Len(requests)
    /\ pc # "get_token" => Len(requests) >= 1
    /\ \A k \in 1..Len(requests) :
         /\ IsAuthRequest(k) <=> k = 1
         /\ IsTagsRequest(k) => (k = 2 /\ AuthSucceeded /\ repo_token = responses[1].json["token"])
         /\ IsManifestRequest(k) => (k > 2 /\ IsTagsRequest(2) /\ TagsSucceeded)

\* this step runs the signature correlation of tag: it emits the tag's
\* 'Signed!' record or its 'Manifest for' record with a non-empty result
Correlates(tag) ==
    \E k \in Len(log) + 1..Len(log') :
        /\ log'[k].kind \in {"signed", "manifest"}
        /\ log'[k].tag = tag
        /\ log'[k].kind = "manifest" => log'[k].manifest # EmptyDict

\* the response to the manifest request of tag has been received before this step
ManifestReceived(tag) ==
    /\ Len(requests) >= 1
    /\ requests' = requests
    /\ responses' = responses
    /\ IsManifestRequest(Len(requests))
    /\ RequestedTag(Len(requests)) = tag
    /\ Succeeded(responses[Len(responses)])

\* C10: the auth request is the first request and the only auth request; a
\* tag-list request is the second request, issued once and with the token
\* acquired; a manifest request comes after the successful tag-list request;
\* a step that correlates a tag comes after the response to that tag's own
\* manifest request, which is the latest request.
C10_RequestOrder ==
    /\ []RequestOrder
    /\ [][\A tag \in TagUniverse : Correlates(tag) => ManifestReceived(tag)]_vars

\* C10 witness: a run that issued all three kinds of request, correlated two
\* tags and reported one of them signed.
C10_Witness ==
    /\ pc = "exited"
    /\ Cardinality({k \in ManifestRequests : Succeeded(responses[k])}) >= 2
    /\ \E tag \in RequestedTags : SignedLogged(tag)

\* the loop has gone past position j of the tag list
Passed(j) == j \in 1..Len(repo_tags) /\ j < tag_idx

\* C11: a tag is skipped only if it is a signature tag: every tag the loop
\* has gone past that is not of the form sha256-<hex>.sig (sha256-v1.sig
\* included) has had a manifest GET issued for it.
C11_OnlySignatureTagsSkipped ==
    \A j \in 1..Len(repo_tags) :
        (Passed(j) /\ ~IsSignatureTag(repo_tags[j])) => repo_tags[j] \in RequestedTags

\* the loop is running or has run
InLoop == pc \in {"manifests", "manifest_fetched"}

\* C12: once the tag list is populated, repo_tags is the tags array of the
\* tag-list response, in its order, and repo_token is the token of the auth
\* response; no step of the manifest loop changes either.
C12_TokenAndTagsFrozen ==
    /\ [](TagsSucceeded =>
            /\ repo_tags = responses[2].json["tags"]
            /\ repo_token = responses[1].json["token"])
    /\ [][InLoop => (repo_token' = repo_token /\ repo_tags' = repo_tags)]_vars

\* C12 witness: the loop has run to its end over a list with a skipped tag, a
\* tag reported signed and a tag whose manifest request failed.
C12_Witness ==
    /\ pc = "exited"
    /\ TagsSucceeded
    /\ \E j \in 1..Len(repo_tags) : MatchesSigPattern(repo_tags[j])
    /\ \E tag \in RequestedTags : SignedLogged(tag)
    /\ \E k \in ManifestRequests : ~Succeeded(responses[k])

\* the 'First N Tags' record of the tag listing
SummaryRecords == {log[k] : k \in LogOfKind("tags_first")}
TotalRecords == {log[k] : k \in LogOfKind("tags_total")}

\* C13: after a successful tag listing of L tags with print limit N the
\* summary reports the count L and exactly the first min(N, L) tags of the
\* list in registry order, none when N <= 0.
C13_SummaryShowsFirstN ==
    TagsSucceeded =>
        /\ TotalRecords = {[kind |-> "tags_total", count |-> Len(repo_tags)]}
        /\ SummaryRecords =
             {[kind |-> "tags_first", limit |-> print_limit,
               tags |-> IF print_limit <= 0 THEN << >>
                        ELSE SubSeq(repo_tags, 1, Min(print_limit, Len(repo_tags)))]}

\* the manifest request k has been answered and its tag processed
Processed(k) == k < Len(requests) \/ pc # "manifest_fetched"

\* C14: a manifest fetched successfully without docker-content-digest header
\* gives no 'Signed!' record and no error record for its tag, does not end
\* the run with status 1, and the loop goes on: the tag's 'Manifest for'
\* record is emitted and the run ends only after the last tag.
C14_NoDigestIsSilent ==
    \A k \in ManifestRequests :
        (Succeeded(responses[k]) /\ ~HasDigest(responses[k])) =>
            /\ ~SignedLogged(RequestedTag(k))
            /\ ~ErrorLogged(requests[k].url)
            /\ exit_status # 1
            /\ Processed(k) => ManifestLogged(RequestedTag(k))
            /\ FetchedUpTo(tag_idx - 1) \subseteq RequestedTags
            /\ pc = "exited" => tag_idx = Len(repo_tags) + 1

\* C14 witness: a manifest without digest header was processed, a later tag
\* was requested, and the signature tag of another digest is in the list.
C14_Witness ==
    /\ pc = "exited"
    /\ \E k \in ManifestRequests :
         /\ Succeeded(responses[k])
         /\ ~HasDigest(responses[k])
         /\ k + 1 \in ManifestRequests
    /\ \E j \in 1..Len(repo_tags) : IsSignatureTag(repo_tags[j])

\* the tags of the manifest requests, in the order the requests were issued
RequestedSeq ==
    LET ks == {k \in 1..Len(requests) : IsManifestRequest(k)}
        first == Len(requests) - Cardinality(ks)
    IN  [k \in 1..Cardinality(ks) |-> RequestedTag(first + k)]

NotSkipped(tag) == ~MatchesSigPattern(tag)

\* the number of entries of the tag list the loop has reached so far
Reached == IF pc = "manifest_fetched" THEN tag_idx ELSE Min(tag_idx - 1, Len(repo_tags))

\* C15: once token and tag list succeeded, the manifest requests are, in
\* order, exactly the entries of the tag list reached so far that are not
\* skipped, one request per entry whatever its outcome; at the end of the run
\* that is every entry not skipped, and their number is the number of requests.
C15_OneRequestPerEntryInOrder ==
    /\ \A k \in ManifestRequests : \A j \in 1..Len(requests) : j > k => IsManifestRequest(j)
    /\ TagsSucceeded =>
         /\ RequestedSeq = SelectSeq(SubSeq(repo_tags, 1, Reached), NotSkipped)
         /\ pc = "exited" =>
              /\ RequestedSeq = SelectSeq(repo_tags, NotSkipped)
              /\ Cardinality(ManifestRequests) = Len(SelectSeq(repo_tags, NotSkipped))
    /\ ~TagsSucceeded => ManifestRequests = {}

\* C15 witness: a run that ended after two or more manifest requests, one of
\* which failed and was followed by another, over a list with a skipped entry
\* that is not the last one.
C15_Witness ==
    /\ pc = "exited"
    /\ Len(RequestedSeq) >= 2
    /\ \E k \in ManifestRequests : ~Succeeded(responses[k]) /\ k + 1 \in ManifestRequests
    /\ \E j \in 1..Len(repo_tags) - 1 : MatchesSigPattern(repo_tags[j])

SignedTags == {log[k].tag : k \in LogOfKind("signed")}

\* this step emits a 'Signed!' record
EmitsSigned == LogOfKind("signed")' # LogOfKind("signed")

\* C16: a tag has a 'Signed!' record only if a manifest request for that very
\* tag succeeded; the step that emits the record works on a non-empty result;
\* a tag whose manifest request failed has no 'Signed!' record, and once it is
\* processed its 'Manifest for' record shows the empty result.
C16_SignedOnlyAfterOwnSuccess ==
    /\ [](/\ \A tag \in SignedTags :
               \E k \in ManifestRequests :
                   RequestedTag(k) = tag /\ Succeeded(responses[k])
          /\ \A k \in ManifestRequests :
               ~Succeeded(responses[k]) =>
                  /\ RequestedTag(k) \notin SignedTags
                  /\ Processed(k) =>
                       \E m \in LogOfKind("manifest") :
                           /\ log[m].tag = RequestedTag(k)
                           /\ log[m].manifest = EmptyDict)
    /\ [][EmitsSigned => (pc = "manifest_fetched" /\ Truthy(r_tag_manifest))]_vars

\* C16 witness: at the end of a run one tag is reported signed and another
\* tag, whose manifest request failed, has its 'Manifest for' record.
C16_Witness ==
    /\ pc = "exited"
    /\ SignedTags # {}
    /\ \E k \in ManifestRequests :
         /\ ~Succeeded(responses[k])
         /\ ManifestLogged(RequestedTag(k))

\* the run has ended fatally at the token or tag-list stage
FatalExit == pc = "exited" /\ exit_status = 1 /\ (AuthFailed \/ TagsFailed)
\* the run has ended after the last tag of the list
NormalCompletion ==
    /\ pc = "exited"
    /\ exit_status = 0
    /\ TagsSucceeded
    /\ tag_idx = Len(repo_tags) + 1

\* C17: every run eventually ends, for every tag list and every combination
\* of request outcomes, either fatally (auth or tag-list failure) or normally
\* after the last tag.
C17_Terminates == <>(FatalExit \/ NormalCompletion)

\* C17 witness: a run over three fetched tags, all of whose manifest requests
\* failed, has completed normally.
C17_Witness ==
    /\ NormalCompletion
    /\ Cardinality(ManifestRequests) >= 3
    /\ \A k \in ManifestRequests : ~Succeeded(responses[k])

====
